---- MODULE Spec2Model ----
(***************************************************************************)
(* State-machine model of the Flask blog: the unified Post table, its      *)
(* taxonomy (Category, Tag, post_tags), the PostMeta key/value rows, and   *)
(* the request handlers and CLI commands that change them.                 *)
(*                                                                         *)
(* Every handler is one atomic action: it stages its changes, commits,     *)
(* and either the whole staged state is stored or (on a failed commit)     *)
(* the session is rolled back and the store is left as it was.             *)
(* Text that the code parses (tag strings, taxonomy names) is a sequence   *)
(* of one-character strings.  Opaque text columns (title, content,         *)
(* excerpt, author) and the featured flag are not part of the state.       *)
(***************************************************************************)
EXTENDS Integers, Sequences, FiniteSets, TLC

VARIABLES posts, tags, categories, post_tags, meta, settings, users, config, now, sessions,
          resp

vars ==
    <<posts, tags, categories, post_tags, meta, settings, users, config, now, sessions, resp>>

(* ---------------------------------------------------------------- bounds *)
MaxPostId == 2
MaxTagId == 2
MaxCatId == 2
MaxMetaId == 5
MaxTime == 2

(* A nullable integer column holds NULL or a value >= 1. *)
NULL == 0

(* The requests that can be in progress at once; each has its own          *)
(* db.session (a scoped session per request), idle until a handler runs.    *)
Requests == {1, 2}
Idle == [pc |-> "idle"]

(* The ids of the logged-in users that send requests. *)
UserIds == {1, 2}

FormSlugs == {"hello-world", "flask-blog-cms"}

(* ------------------------------------------------------------- sequences *)
MaxOf(S) == IF S = {} THEN 0 ELSE CHOOSE x \in S : \A y \in S : y <= x

(* SQLite INTEGER PRIMARY KEY: the next rowid is the largest one plus 1. *)
NextId(table) == MaxOf(DOMAIN table) + 1

Restrict(f, S) == [x \in S |-> f[x]]

Extend(f, k, v) == [x \in DOMAIN f \cup {k} |-> IF x = k THEN v ELSE f[x]]

(* ------------------------------------------------------------ text input *)
IsSpace(c) == c = " "

RECURSIVE LStrip(_)
LStrip(s) == IF s # <<>> /\ IsSpace(Head(s)) THEN LStrip(Tail(s)) ELSE s

RECURSIVE RStrip(_)
RStrip(s) ==
    IF s # <<>> /\ IsSpace(s[Len(s)]) THEN RStrip(SubSeq(s, 1, Len(s) - 1)) ELSE s

(* str.strip() *)
Strip(s) == RStrip(LStrip(s))

(* str.split(','): one piece more than there are commas. *)
RECURSIVE Split(_)
Split(s) ==
    IF \A i \in DOMAIN s : s[i] # ","
    THEN <<s>>
    ELSE LET i == CHOOSE k \in DOMAIN s : s[k] = "," /\ \A j \in 1..(k - 1) : s[j] # ","
         IN  <<SubSeq(s, 1, i - 1)>> \o Split(SubSeq(s, i + 1, Len(s)))

(* [t.strip() for t in (form.tags.data or "").split(',') if t.strip()] *)
tag_names(S) ==
    LET pieces == Split(S)
        stripped == [i \in DOMAIN pieces |-> Strip(pieces[i])]
    IN  SelectSeq(stripped, LAMBDA t : t # <<>>)

(* ----------------------------------------------------------------- model *)
(* Post.published (property): post_status == 'publish'. *)
published(post) == post.post_status = "publish"

(* A setter that files an unpublished post as 'private'. *)
set_published_Private(post, value) ==
    [post EXCEPT !.post_status = IF value THEN "publish" ELSE "private"]

(* Post.published (setter). *)
set_published(post, value) ==
    [post EXCEPT !.post_status = IF value THEN "publish" ELSE "draft"]

(* flask_login principals: a logged-in User row, or the anonymous user. *)
User(id) == [present |-> TRUE, is_authenticated |-> TRUE, id |-> id]
AnonymousUser == [present |-> TRUE, is_authenticated |-> FALSE, id |-> NULL]
NoUser == [present |-> FALSE, is_authenticated |-> FALSE, id |-> NULL]

(* An ownership test that compares the ids without looking at the user. *)
is_owned_by_IdsOnly(post, user) == post.user_id = user.id

is_owned_by(post, user) ==
    IF ~user.present \/ ~user.is_authenticated
    THEN FALSE
    ELSE post.user_id = user.id

(* A tag.posts that is always empty, as if the backref were not loaded. *)
TagPosts_Empty(links, t) == {}

(* Tag.posts / Category.posts backrefs. *)
TagPosts(links, t) == {l[1] : l \in {x \in links : x[2] = t}}
CategoryPosts(ps, c) == {p \in DOMAIN ps : ps[p].category_id = c}
PostTagIds(links, p) == {l[2] : l \in {x \in links : x[1] = p}}

(* ------------------------------------------------------- schema and commit *)
(* The posts table as it would be without unique=True on Post.slug. *)
UniqueSlugs_NotEnforced(ps) == TRUE

(* Post.slug: unique=True. *)
UniqueSlugs(ps) ==
    \A p, q \in DOMAIN ps : ps[p].slug = ps[q].slug => p = q

(* A name column without its unique constraint. *)
UniqueNames_NotEnforced(table) == TRUE

(* Tag.name / Category.name: unique=True. *)
UniqueNames(table) ==
    \A a, b \in DOMAIN table : table[a].name = table[b].name => a = b

(* Tag.slug / Category.slug: unique=True, nullable (NULLs never collide). *)
UniqueTaxSlugs(table) ==
    \A a, b \in DOMAIN table :
        (table[a].slug # <<>> /\ table[a].slug = table[b].slug) => a = b

HasDup(s) == \E i, j \in DOMAIN s : i < j /\ s[i] = s[j]

(* The rows a flush INSERTs one after the other; a row list with a repeated *)
(* name cannot be stored as a table, so it is kept as a sequence of rows    *)
(* until the constraints have been checked.                                 *)
RECURSIVE InsertTags(_, _)
InsertTags(tg, names) ==
    IF names = <<>>
    THEN tg
    ELSE InsertTags(Extend(tg, NextId(tg), [name |-> Head(names), slug |-> <<>>]),
                    Tail(names))

(* db.session.commit(): the exception the flush or the COMMIT raises, or    *)
(* "ok".  integrity: some unique or primary-key constraint is violated by   *)
(* the staged rows; fault: the database fails for another reason.           *)
commit(integrity, fault) ==
    IF integrity THEN "IntegrityError"
    ELSE IF fault THEN "SQLAlchemyError"
    ELSE "ok"

(* safe_db_commit(): commits; every exception is caught, the session is     *)
(* rolled back and (False, message) is returned.                            *)
safe_db_commit(integrity, fault) ==
    LET raised == commit(integrity, fault)
    IN  IF raised = "ok" THEN [success |-> TRUE, error |-> "none"]
        ELSE IF raised = "IntegrityError"
        THEN [success |-> FALSE, error |-> "integrity"]
        ELSE [success |-> FALSE, error |-> "database"]

(* A bare db.session.commit() in a handler: the exception leaves the        *)
(* handler (HTTP 500 / CLI traceback) and the request's session is removed, *)
(* which rolls the transaction back.                                        *)
raw_commit(integrity, fault) ==
    IF commit(integrity, fault) = "ok" THEN "ok" ELSE "crash"

(* --------------------------------------------------- tag-string resolution *)
TagIdByName(tg, name) ==
    IF \E t \in DOMAIN tg : tg[t].name = name
    THEN CHOOSE t \in DOMAIN tg : tg[t].name = name
    ELSE NULL

(* The new names as they would be staged if the loop remembered the Tag it  *)
(* has just made: one new Tag per distinct name.                            *)
NewTagNames_Once(tg, names) ==
    LET F[i \in 0..Len(names)] ==
            IF i = 0 THEN <<>>
            ELSE IF /\ TagIdByName(tg, names[i]) = NULL
                    /\ \A k \in 1..(i - 1) : names[k] # names[i]
                 THEN Append(F[i - 1], names[i])
                 ELSE F[i - 1]
    IN  F[Len(names)]

(* The names of tag_names that Tag.query.filter(Tag.name.in_(...)) did not  *)
(* find: one new Tag(name=name) is added for every occurrence.              *)
NewTagNames(tg, names) ==
    SelectSeq(names, LAMBDA n : TagIdByName(tg, n) = NULL)

(* post.tag_items after the loop, as tag ids, for a list of new names       *)
(* without repetition (a repetition fails the commit before links exist).   *)
TagItems(tg, names) ==
    LET tg2 == InsertTags(tg, NewTagNames(tg, names))
    IN  [i \in DOMAIN names |-> TagIdByName(tg2, names[i])]

(* The association rows the unit of work INSERTs: the appended items that   *)
(* were not in the collection when it was loaded, repetitions included.     *)
AddedLinks(original, items) ==
    SelectSeq(items, LAMBDA t : t \notin original)

(* The appends without post.tag_items.clear(): a merge. *)
ReplaceLinks_Merge(links, p, items) ==
    links \cup {<<p, items[i]>> : i \in DOMAIN items}

(* post.tag_items.clear() followed by the appends: the post's rows of       *)
(* post_tags are replaced by one row per appended tag.                      *)
ReplaceLinks(links, p, items) ==
    {l \in links : l[1] # p} \cup {<<p, items[i]>> : i \in DOMAIN items}

(* ------------------------------------------------------------ post create *)
(* admin_new_post, POST with a valid form, by the logged-in user u.         *)
(*   slug, cat, S, pub: form.slug, form.category, form.tags, form.published *)
(*   fault: the database fails at commit for a reason other than a          *)
(*          constraint                                                      *)
(*   dedup: whether the unit of work stores a tag appended twice to         *)
(*          tag_items once (TRUE) or INSERTs its post_tags row twice and    *)
(*          fails on the primary key (FALSE)                                *)
(*   cascade_backrefs: whether assigning post.category_obj puts the new     *)
(*          post into the session (SQLAlchemy 1.x) so that the Tag query's  *)
(*          autoflush INSERTs it outside the try block                      *)
admin_new_post(u, slug, cat, S, pub, fault, dedup, cascade_backrefs) ==
    LET id == NextId(posts)
        names == tag_names(S)
        created == NewTagNames(tags, names)
        post == [set_published(
                     [slug |-> slug, post_type |-> "post", post_status |-> "draft",
                      user_id |-> u, category_id |-> cat, published_at |-> NULL],
                     pub)
                 EXCEPT !.published_at = IF pub THEN now ELSE NULL]
        staged == Extend(posts, id, post)
        items == TagItems(tags, names)
        flushed == cat # NULL /\ names # <<>> /\ cascade_backrefs
        integrity ==
            \/ ~UniqueSlugs(staged)
            \/ HasDup(created)
            \/ (~dedup /\ HasDup(AddedLinks({}, items)))
        res == safe_db_commit(integrity, fault)
        outcome ==
            IF flushed /\ ~UniqueSlugs(staged) THEN "crash"
            ELSE IF res.success THEN "ok"
            ELSE res.error
    IN  /\ id <= MaxPostId
        /\ HasDup(created) \/ MaxOf(DOMAIN tags) + Len(created) <= MaxTagId
        /\ IF outcome = "ok"
           THEN /\ posts' = staged
                /\ tags' = InsertTags(tags, created)
                /\ post_tags' = post_tags \cup {<<id, items[i]>> : i \in DOMAIN items}
           ELSE UNCHANGED <<posts, tags, post_tags>>
        /\ resp' = [op |-> "admin_new_post", user |-> u, tags |-> S,
                    post |-> IF outcome = "ok" THEN id ELSE NULL,
                    outcome |-> outcome]
        /\ UNCHANGED <<categories, meta, now, settings, users, config, sessions>>

(* -------------------------------------------------------------- post edit *)
(* An edit whose changes to the post stay in the store when the commit      *)
(* fails: safe_db_commit without db.session.rollback().                     *)
admin_edit_post_NoRollback(u, p, slug, cat, S, pub, fault, dedup) ==
    IF p \notin DOMAIN posts
    THEN /\ resp' = [op |-> "admin_edit_post", user |-> u, tags |-> S, post |-> p,
                     outcome |-> "notfound"]
         /\ UNCHANGED <<posts, tags, categories, post_tags, meta, now, settings, users, config,
                        sessions>>
    ELSE
    LET old == posts[p]
        names == tag_names(S)
        created == NewTagNames(tags, names)
        was_published == published(old)
        post == [set_published([old EXCEPT !.slug = slug, !.category_id = cat], pub)
                 EXCEPT !.published_at =
                     IF pub /\ ~was_published THEN now ELSE old.published_at]
        staged == [posts EXCEPT ![p] = post]
        items == TagItems(tags, names)
        original == PostTagIds(post_tags, p)
        integrity ==
            \/ ~UniqueSlugs(staged)
            \/ HasDup(created)
            \/ (~dedup /\ HasDup(AddedLinks(original, items)))
        res == safe_db_commit(integrity, fault)
        outcome ==
            IF ~UniqueSlugs(staged) THEN "crash"
            ELSE IF res.success THEN "ok"
            ELSE res.error
    IN  /\ HasDup(created) \/ MaxOf(DOMAIN tags) + Len(created) <= MaxTagId
        /\ IF outcome = "ok"
           THEN /\ posts' = staged
                /\ tags' = InsertTags(tags, created)
                /\ post_tags' = ReplaceLinks(post_tags, p, items)
           ELSE /\ posts' = staged
                /\ UNCHANGED <<tags, post_tags>>
        /\ resp' = [op |-> "admin_edit_post", user |-> u, tags |-> S, post |-> p,
                    was |-> original, outcome |-> outcome]
        /\ UNCHANGED <<categories, meta, now, settings, users, config, sessions>>

(* admin_edit_post, POST with a valid form, by the logged-in user u.  The   *)
(* handler does not look at who owns the post.  post.tag_items.clear()      *)
(* loads the collection, and the load autoflushes the changed slug before   *)
(* the try block: a duplicate slug then raises out of the handler.          *)
admin_edit_post(u, p, slug, cat, S, pub, fault, dedup) ==
    IF p \notin DOMAIN posts
    THEN /\ resp' = [op |-> "admin_edit_post", user |-> u, tags |-> S, post |-> p,
                     outcome |-> "notfound"]
         /\ UNCHANGED <<posts, tags, categories, post_tags, meta, now, settings, users, config,
                        sessions>>
    ELSE
    LET old == posts[p]
        names == tag_names(S)
        created == NewTagNames(tags, names)
        was_published == published(old)
        post == [set_published([old EXCEPT !.slug = slug, !.category_id = cat], pub)
                 EXCEPT !.published_at =
                     IF pub /\ ~was_published THEN now ELSE old.published_at]
        staged == [posts EXCEPT ![p] = post]
        items == TagItems(tags, names)
        original == PostTagIds(post_tags, p)
        integrity ==
            \/ ~UniqueSlugs(staged)
            \/ HasDup(created)
            \/ (~dedup /\ HasDup(AddedLinks(original, items)))
        res == safe_db_commit(integrity, fault)
        outcome ==
            IF ~UniqueSlugs(staged) THEN "crash"
            ELSE IF res.success THEN "ok"
            ELSE res.error
    IN  /\ HasDup(created) \/ MaxOf(DOMAIN tags) + Len(created) <= MaxTagId
        /\ IF outcome = "ok"
           THEN /\ posts' = staged
                /\ tags' = InsertTags(tags, created)
                /\ post_tags' = ReplaceLinks(post_tags, p, items)
           ELSE UNCHANGED <<posts, tags, post_tags>>
        /\ resp' = [op |-> "admin_edit_post", user |-> u, tags |-> S, post |-> p,
                    was |-> original, outcome |-> outcome]
        /\ UNCHANGED <<categories, meta, now, settings, users, config, sessions>>

(* ----------------------------------------------------------- post publish *)
(* A publish that asks nobody and makes the publishing user the owner. *)
admin_publish_post_TakeOver(u, p, fault) ==
    IF p \notin DOMAIN posts
    THEN /\ resp' = [op |-> "admin_publish_post", user |-> u, post |-> p,
                     outcome |-> "notfound"]
         /\ UNCHANGED <<posts, tags, categories, post_tags, meta, now, settings, users, config,
                        sessions>>
    ELSE
    LET post == [set_published(posts[p], TRUE) EXCEPT !.published_at = now, !.user_id = u]
        outcome == raw_commit(FALSE, fault)
    IN  /\ posts' = IF outcome = "ok" THEN [posts EXCEPT ![p] = post] ELSE posts
        /\ resp' = [op |-> "admin_publish_post", user |-> u, post |-> p,
                    outcome |-> outcome]
        /\ UNCHANGED <<tags, categories, post_tags, meta, now, settings, users, config, sessions>>

(* admin_publish_post: the only post handler that asks is_owned_by. *)
admin_publish_post(u, p, fault) ==
    IF p \notin DOMAIN posts
    THEN /\ resp' = [op |-> "admin_publish_post", user |-> u, post |-> p,
                     outcome |-> "notfound"]
         /\ UNCHANGED <<posts, tags, categories, post_tags, meta, now, settings, users, config,
                        sessions>>
    ELSE IF ~is_owned_by(posts[p], User(u))
    THEN /\ resp' = [op |-> "admin_publish_post", user |-> u, post |-> p,
                     outcome |-> "refused"]
         /\ UNCHANGED <<posts, tags, categories, post_tags, meta, now, settings, users, config,
                        sessions>>
    ELSE
    LET post == [set_published(posts[p], TRUE) EXCEPT !.published_at = now]
        outcome == raw_commit(FALSE, fault)
    IN  /\ posts' = IF outcome = "ok" THEN [posts EXCEPT ![p] = post] ELSE posts
        /\ resp' = [op |-> "admin_publish_post", user |-> u, post |-> p,
                    outcome |-> outcome]
        /\ UNCHANGED <<tags, categories, post_tags, meta, now, settings, users, config, sessions>>

(* ------------------------------------------------------------ post delete *)
(* A delete that leaves the post's PostMeta rows behind. *)
admin_delete_post_KeepMeta(u, p, fault) ==
    IF p \notin DOMAIN posts
    THEN /\ resp' = [op |-> "admin_delete_post", user |-> u, post |-> p,
                     outcome |-> "notfound"]
         /\ UNCHANGED <<posts, tags, categories, post_tags, meta, now, settings, users, config,
                        sessions>>
    ELSE
    LET outcome == raw_commit(FALSE, fault)
    IN  /\ IF outcome = "ok"
           THEN /\ posts' = Restrict(posts, DOMAIN posts \ {p})
                /\ post_tags' = {l \in post_tags : l[1] # p}
                /\ meta' = meta
           ELSE UNCHANGED <<posts, post_tags, meta>>
        /\ resp' = [op |-> "admin_delete_post", user |-> u, post |-> p,
                    outcome |-> outcome]
        /\ UNCHANGED <<tags, categories, now, settings, users, config, sessions>>

(* admin_delete_post: no ownership check.  The delete cascades to the       *)
(* post's PostMeta rows (cascade='all, delete-orphan') and removes its      *)
(* post_tags rows; Tag and Category rows stay.                              *)
admin_delete_post(u, p, fault) ==
    IF p \notin DOMAIN posts
    THEN /\ resp' = [op |-> "admin_delete_post", user |-> u, post |-> p,
                     outcome |-> "notfound"]
         /\ UNCHANGED <<posts, tags, categories, post_tags, meta, now, settings, users, config,
                        sessions>>
    ELSE
    LET outcome == raw_commit(FALSE, fault)
    IN  /\ IF outcome = "ok"
           THEN /\ posts' = Restrict(posts, DOMAIN posts \ {p})
                /\ post_tags' = {l \in post_tags : l[1] # p}
                /\ meta' = Restrict(meta, {m \in DOMAIN meta : meta[m].post_id # p})
           ELSE UNCHANGED <<posts, post_tags, meta>>
        /\ resp' = [op |-> "admin_delete_post", user |-> u, post |-> p,
                    outcome |-> outcome]
        /\ UNCHANGED <<tags, categories, now, settings, users, config, sessions>>

(* --------------------------------------------------------------- PostMeta *)
(* Python values handed to set_meta / get_meta, tagged with their type. *)
PyStr(text) == [t |-> "str", s |-> text]
PyInt(n) == [t |-> "int", i |-> n]
PyBool(b) == [t |-> "bool", b |-> b]
PyNone == [t |-> "NoneType"]

Digits == <<"0", "1", "2", "3", "4", "5", "6", "7", "8", "9">>

(* str(value) *)
Str(value) ==
    CASE value.t = "str" -> value.s
      [] value.t = "int" -> Digits[value.i + 1]
      [] value.t = "bool" -> IF value.b THEN "True" ELSE "False"
      [] OTHER -> "None"

(* PostMeta.query.filter_by(post_id=..., meta_key=...) *)
MetaRows(m, pid, key) ==
    {r \in DOMAIN m : m[r].post_id = pid /\ m[r].meta_key = key}

(* .first(): the row with the lowest rowid, or NULL. *)
First(rows) == IF rows = {} THEN NULL ELSE CHOOSE r \in rows : \A q \in rows : r <= q

(* Post.get_meta *)
get_meta(m, pid, key, default) ==
    LET row == First(MetaRows(m, pid, key))
    IN  IF row # NULL THEN PyStr(m[row].meta_value) ELSE default

(* set_meta without the lookup: a new row on every call. *)
set_meta_AlwaysInsert(m, pid, key, value) ==
    Extend(m, NextId(m), [post_id |-> pid, meta_key |-> key, meta_value |-> Str(value)])

(* set_meta that leaves an existing row as it is: the first write wins. *)
set_meta_KeepFirst(m, pid, key, value) ==
    IF MetaRows(m, pid, key) # {}
    THEN m
    ELSE Extend(m, NextId(m),
                [post_id |-> pid, meta_key |-> key, meta_value |-> Str(value)])

(* Post.set_meta: the table after the call (the session autoflushes the     *)
(* added row before the next query reads the table).                        *)
set_meta(m, pid, key, value) ==
    LET row == First(MetaRows(m, pid, key))
    IN  IF row # NULL
        THEN [m EXCEPT ![row].meta_value = Str(value)]
        ELSE Extend(m, NextId(m),
                    [post_id |-> pid, meta_key |-> key, meta_value |-> Str(value)])

(* delete_meta without the meta_key filter: every row of the post goes. *)
delete_meta_WholePost(m, pid, key) ==
    Restrict(m, {r \in DOMAIN m : m[r].post_id # pid})

(* Post.delete_meta: a bulk DELETE of every matching row. *)
delete_meta(m, pid, key) ==
    Restrict(m, DOMAIN m \ MetaRows(m, pid, key))

(* Post.get_all_meta: {meta.meta_key: meta.meta_value for meta in meta_items}, *)
(* a later row of the same key overwriting an earlier one.                  *)
MetaKeys(m, pid) == {m[r].meta_key : r \in {x \in DOMAIN m : m[x].post_id = pid}}

get_all_meta(m, pid) ==
    [k \in MetaKeys(m, pid) |->
        m[CHOOSE r \in MetaRows(m, pid, k) : \A q \in MetaRows(m, pid, k) : q <= r].meta_value]

MetaKeyNames == {"layout", "content_type"}

MetaValues == {PyStr("blank"), PyInt(1)}

MetaDefaults == {PyNone, PyStr("blank")}

(* A caller runs post.set_meta(key, value) and commits. *)
SetMeta(p, key, value) ==
    /\ p \in DOMAIN posts
    /\ MetaRows(meta, p, key) # {} \/ NextId(meta) <= MaxMetaId
    /\ meta' = set_meta(meta, p, key, value)
    /\ resp' = [op |-> "set_meta", post |-> p, key |-> key, value |-> value,
                old |-> get_meta(meta, p, key, PyNone),
                outcome |-> IF MetaRows(meta, p, key) # {} THEN "updated" ELSE "inserted"]
    /\ UNCHANGED <<posts, tags, categories, post_tags, now, settings, users, config, sessions>>

(* A caller runs post.delete_meta(key) and commits. *)
DeleteMeta(p, key) ==
    /\ p \in DOMAIN posts
    /\ meta' = delete_meta(meta, p, key)
    /\ resp' = [op |-> "delete_meta", post |-> p, key |-> key,
                outcome |-> IF MetaRows(meta, p, key) # {} THEN "deleted" ELSE "absent"]
    /\ UNCHANGED <<posts, tags, categories, post_tags, now, settings, users, config, sessions>>

(* A caller reads post.get_meta(key, default). *)
GetMeta(p, key, default) ==
    /\ p \in DOMAIN posts
    /\ resp' = [op |-> "get_meta", post |-> p, key |-> key, default |-> default,
                ret |-> get_meta(meta, p, key, default)]
    /\ UNCHANGED <<posts, tags, categories, post_tags, meta, now, settings, users, config,
                   sessions>>

(* ------------------------------------------------------------ CLI commands *)
(* flask seed-db: skipped when a post of type 'post' exists; else one       *)
(* published post through safe_db_add.                                      *)
seed_db(fault) ==
    IF \E p \in DOMAIN posts : posts[p].post_type = "post"
    THEN /\ resp' = [op |-> "seed_db", post |-> NULL, outcome |-> "skipped"]
         /\ UNCHANGED <<posts, tags, categories, post_tags, meta, now, settings, users, config,
                        sessions>>
    ELSE
    LET id == NextId(posts)
        post == [slug |-> "hello-world", post_type |-> "post", post_status |-> "publish",
                 user_id |-> NULL, category_id |-> NULL, published_at |-> now]
        staged == Extend(posts, id, post)
        res == safe_db_commit(~UniqueSlugs(staged), fault)
    IN  /\ id <= MaxPostId
        /\ posts' = IF res.success THEN staged ELSE posts
        /\ resp' = [op |-> "seed_db", post |-> IF res.success THEN id ELSE NULL,
                    outcome |-> IF res.success THEN "ok" ELSE res.error]
        /\ UNCHANGED <<tags, categories, post_tags, meta, now, settings, users, config, sessions>>

SampleMeta == <<"github_url", "demo_url", "tech_stack", "status", "year">>

RECURSIVE SetAllMeta(_, _, _)
SetAllMeta(m, pid, keys) ==
    IF keys = <<>> THEN m
    ELSE SetAllMeta(set_meta(m, pid, Head(keys), PyStr("sample")), pid, Tail(keys))

(* create_sample_project.py: exits when a project with the slug exists;     *)
(* else adds the project, flushes, sets five custom fields and commits.     *)
(* Neither the flush nor the commit is guarded.                             *)
create_sample_project(fault) ==
    IF \E p \in DOMAIN posts :
           posts[p].slug = "flask-blog-cms" /\ posts[p].post_type = "project"
    THEN /\ resp' = [op |-> "create_sample_project", post |-> NULL, outcome |-> "skipped"]
         /\ UNCHANGED <<posts, tags, categories, post_tags, meta, now, settings, users, config,
                        sessions>>
    ELSE
    LET id == NextId(posts)
        post == [slug |-> "flask-blog-cms", post_type |-> "project",
                 post_status |-> "publish", user_id |-> NULL, category_id |-> NULL,
                 published_at |-> now]
        staged == Extend(posts, id, post)
        outcome == raw_commit(~UniqueSlugs(staged), fault)
    IN  /\ id <= MaxPostId
        /\ MaxOf(DOMAIN meta) + Len(SampleMeta) <= MaxMetaId
        /\ IF outcome = "ok"
           THEN /\ posts' = staged
                /\ meta' = SetAllMeta(meta, id, SampleMeta)
           ELSE UNCHANGED <<posts, meta>>
        /\ resp' = [op |-> "create_sample_project",
                    post |-> IF outcome = "ok" THEN id ELSE NULL, outcome |-> outcome]
        /\ UNCHANGED <<tags, categories, post_tags, now, settings, users, config, sessions>>

(* The sweep's query without its post_type filter. *)
Due_AnyType(ps, t) ==
    {p \in DOMAIN ps :
        /\ ps[p].post_status = "draft"
        /\ ps[p].published_at # NULL
        /\ ps[p].published_at <= t}

(* The sweep's query without its post_status filter. *)
Due_AnyStatus(ps, t) ==
    {p \in DOMAIN ps :
        /\ ps[p].post_type = "post"
        /\ ps[p].published_at # NULL
        /\ ps[p].published_at <= t}

(* The query with published_at < now in place of <=. *)
Due_StrictlyPast(ps, t) ==
    {p \in DOMAIN ps :
        /\ ps[p].post_type = "post"
        /\ ps[p].post_status = "draft"
        /\ ps[p].published_at # NULL
        /\ ps[p].published_at < t}

(* The posts the sweep's query selects at time t. *)
Due(ps, t) ==
    {p \in DOMAIN ps :
        /\ ps[p].post_type = "post"
        /\ ps[p].post_status = "draft"
        /\ ps[p].published_at # NULL
        /\ ps[p].published_at <= t}

(* flask publish-scheduled: one bare commit for the whole batch.  again     *)
(* records that the command before this one was a sweep that committed.     *)
publish_scheduled(fault) ==
    LET due == Due(posts, now)
        outcome == raw_commit(FALSE, fault)
    IN  /\ posts' = IF outcome = "ok"
                    THEN [p \in DOMAIN posts |->
                            IF p \in due THEN [posts[p] EXCEPT !.post_status = "publish"]
                            ELSE posts[p]]
                    ELSE posts
        /\ resp' = [op |-> "publish_scheduled", outcome |-> outcome,
                    count |-> IF outcome = "ok" THEN Cardinality(due) ELSE 0,
                    again |-> resp.op = "publish_scheduled" /\ resp.outcome = "ok"]
        /\ UNCHANGED <<tags, categories, post_tags, meta, now, settings, users, config, sessions>>

(* datetime.utcnow() moves on between requests. *)
Tick ==
    /\ now < MaxTime
    /\ now' = now + 1
    /\ resp' = [op |-> "tick", outcome |-> "ok"]
    /\ UNCHANGED <<posts, tags, categories, post_tags, meta, settings, users, config,
                   sessions>>

(* ------------------------------------------------------------ public reads *)
(* Post.query.filter_by(...).first_or_404() *)
first_or_404(op, slug, rows) ==
    /\ resp' = [op |-> op, slug |-> slug, post |-> First(rows),
                outcome |-> IF rows = {} THEN "notfound" ELSE "ok"]
    /\ UNCHANGED <<posts, tags, categories, post_tags, meta, now, settings, users, config,
                   sessions>>

blog_post(slug) ==
    first_or_404("blog_post", slug,
        {p \in DOMAIN posts : posts[p].slug = slug /\ posts[p].post_status = "publish"})

view_page(slug) ==
    first_or_404("view_page", slug,
        {p \in DOMAIN posts : /\ posts[p].slug = slug
                              /\ posts[p].post_type = "page"
                              /\ posts[p].post_status = "publish"})

project_detail(slug) ==
    first_or_404("project_detail", slug,
        {p \in DOMAIN posts : /\ posts[p].slug = slug
                              /\ posts[p].post_type = "project"
                              /\ posts[p].post_status = "publish"})

api_post(slug) ==
    first_or_404("api_post", slug, {p \in DOMAIN posts : posts[p].slug = slug})

(* --------------------------------------------------------------- taxonomy *)
(* admin_categories (POST): Category(name.strip(), slug.strip() or None)    *)
(* through safe_db_add; the unique name decides at commit.                  *)
admin_categories(name, slug, fault) ==
    LET id == NextId(categories)
        staged == Extend(categories, id, [name |-> Strip(name), slug |-> Strip(slug)])
        res == safe_db_commit(~UniqueNames(staged) \/ ~UniqueTaxSlugs(staged), fault)
    IN  /\ id <= MaxCatId
        /\ categories' = IF res.success THEN staged ELSE categories
        /\ resp' = [op |-> "admin_categories", id |-> IF res.success THEN id ELSE NULL,
                    outcome |-> IF res.success THEN "ok" ELSE res.error]
        /\ UNCHANGED <<posts, tags, post_tags, meta, now, settings, users, config, sessions>>

admin_edit_category(c, name, slug, fault) ==
    IF c \notin DOMAIN categories
    THEN /\ resp' = [op |-> "admin_edit_category", id |-> c, outcome |-> "notfound"]
         /\ UNCHANGED <<posts, tags, categories, post_tags, meta, now, settings, users, config,
                        sessions>>
    ELSE
    LET staged == [categories EXCEPT ![c] = [name |-> Strip(name), slug |-> Strip(slug)]]
        res == safe_db_commit(~UniqueNames(staged) \/ ~UniqueTaxSlugs(staged), fault)
    IN  /\ categories' = IF res.success THEN staged ELSE categories
        /\ resp' = [op |-> "admin_edit_category", id |-> c,
                    outcome |-> IF res.success THEN "ok" ELSE res.error]
        /\ UNCHANGED <<posts, tags, post_tags, meta, now, settings, users, config, sessions>>

(* admin_delete_category: refused while cat.posts is not empty. *)
admin_delete_category(c, fault) ==
    IF c \notin DOMAIN categories
    THEN /\ resp' = [op |-> "admin_delete_category", id |-> c, outcome |-> "notfound"]
         /\ UNCHANGED <<posts, tags, categories, post_tags, meta, now, settings, users, config,
                        sessions>>
    ELSE IF CategoryPosts(posts, c) # {}
    THEN /\ resp' = [op |-> "admin_delete_category", id |-> c, outcome |-> "refused"]
         /\ UNCHANGED <<posts, tags, categories, post_tags, meta, now, settings, users, config,
                        sessions>>
    ELSE
    LET res == safe_db_commit(FALSE, fault)
    IN  /\ categories' = IF res.success
                         THEN Restrict(categories, DOMAIN categories \ {c})
                         ELSE categories
        /\ resp' = [op |-> "admin_delete_category", id |-> c,
                    outcome |-> IF res.success THEN "ok" ELSE res.error]
        /\ UNCHANGED <<posts, tags, post_tags, meta, now, settings, users, config, sessions>>

(* admin_tags (POST): looks the stripped name up first. *)
admin_tags(name, slug, fault) ==
    IF TagIdByName(tags, Strip(name)) # NULL
    THEN /\ resp' = [op |-> "admin_tags", id |-> NULL, outcome |-> "exists"]
         /\ UNCHANGED <<posts, tags, categories, post_tags, meta, now, settings, users, config,
                        sessions>>
    ELSE
    LET id == NextId(tags)
        staged == Extend(tags, id, [name |-> Strip(name), slug |-> Strip(slug)])
        res == safe_db_commit(~UniqueNames(staged) \/ ~UniqueTaxSlugs(staged), fault)
    IN  /\ id <= MaxTagId
        /\ tags' = IF res.success THEN staged ELSE tags
        /\ resp' = [op |-> "admin_tags", id |-> IF res.success THEN id ELSE NULL,
                    outcome |-> IF res.success THEN "ok" ELSE res.error]
        /\ UNCHANGED <<posts, categories, post_tags, meta, now, settings, users, config, sessions>>

admin_edit_tag(t, name, slug, fault) ==
    IF t \notin DOMAIN tags
    THEN /\ resp' = [op |-> "admin_edit_tag", id |-> t, outcome |-> "notfound"]
         /\ UNCHANGED <<posts, tags, categories, post_tags, meta, now, settings, users, config,
                        sessions>>
    ELSE
    LET staged == [tags EXCEPT ![t] = [name |-> Strip(name), slug |-> Strip(slug)]]
        res == safe_db_commit(~UniqueNames(staged) \/ ~UniqueTaxSlugs(staged), fault)
    IN  /\ tags' = IF res.success THEN staged ELSE tags
        /\ resp' = [op |-> "admin_edit_tag", id |-> t,
                    outcome |-> IF res.success THEN "ok" ELSE res.error]
        /\ UNCHANGED <<posts, categories, post_tags, meta, now, settings, users, config, sessions>>

(* admin_delete_tag: refused while tag.posts is not empty. *)
admin_delete_tag(t, fault) ==
    IF t \notin DOMAIN tags
    THEN /\ resp' = [op |-> "admin_delete_tag", id |-> t, outcome |-> "notfound"]
         /\ UNCHANGED <<posts, tags, categories, post_tags, meta, now, settings, users, config,
                        sessions>>
    ELSE IF TagPosts(post_tags, t) # {}
    THEN /\ resp' = [op |-> "admin_delete_tag", id |-> t, outcome |-> "refused"]
         /\ UNCHANGED <<posts, tags, categories, post_tags, meta, now, settings, users, config,
                        sessions>>
    ELSE
    LET res == safe_db_commit(FALSE, fault)
    IN  /\ tags' = IF res.success THEN Restrict(tags, DOMAIN tags \ {t}) ELSE tags
        /\ resp' = [op |-> "admin_delete_tag", id |-> t,
                    outcome |-> IF res.success THEN "ok" ELSE res.error]
        /\ UNCHANGED <<posts, categories, post_tags, meta, now, settings, users, config, sessions>>

(* ------------------------------------------------------------------ inputs *)
TagStrings ==
    { <<>>,
      <<"a">>,
      <<"a", ",", "b">>,
      <<" ", "b", " ", ",", ",", "a">>,
      <<"a", ",", "a">> }

TaxNames == { <<"a">>, <<" ", "b", " ">> }

TaxSlugs == { <<>>, <<"s">> }

CategoryChoices == {NULL} \cup DOMAIN categories

(* ---------------------------------------------------------- specification *)
Init ==
    /\ posts = <<>>
    /\ tags = <<>>
    /\ categories = <<>>
    /\ post_tags = {}
    /\ meta = <<>>
    /\ settings = <<>>
    /\ users = <<>>
    /\ config = [ADMIN_GITHUB_USERNAME |-> PyNone]
    /\ now = 1
    /\ sessions = [r \in Requests |-> Idle]
    /\ resp = [op |-> "init", outcome |-> "ok"]

(* The post life cycle: create, edit, publish, delete, the CLI commands,    *)
(* the clock and the public reads; forms carry no tags and no category.     *)
NewPost ==
    \E u \in UserIds, slug \in FormSlugs, pub \in BOOLEAN, fault \in BOOLEAN :
        admin_new_post(u, slug, NULL, <<>>, pub, fault, TRUE, TRUE)

EditPost ==
    \E u \in UserIds, p \in 1..MaxPostId, slug \in FormSlugs, pub \in BOOLEAN,
       fault \in BOOLEAN :
        admin_edit_post(u, p, slug, NULL, <<>>, pub, fault, TRUE)

PublishPost ==
    \E u \in UserIds, p \in 1..MaxPostId, fault \in BOOLEAN : admin_publish_post(u, p, fault)

DeletePost ==
    \E u \in UserIds, p \in 1..MaxPostId, fault \in BOOLEAN : admin_delete_post(u, p, fault)

SeedDb == \E fault \in BOOLEAN : seed_db(fault)

SampleProject == \E fault \in BOOLEAN : create_sample_project(fault)

Sweep == \E fault \in BOOLEAN : publish_scheduled(fault)

ReadBlogPost == \E slug \in FormSlugs : blog_post(slug)

ReadPage == \E slug \in FormSlugs : view_page(slug)

ReadProject == \E slug \in FormSlugs : project_detail(slug)

ReadApiPost == \E slug \in FormSlugs : api_post(slug)

Next ==
    \/ NewPost
    \/ EditPost
    \/ PublishPost
    \/ DeletePost
    \/ SeedDb
    \/ SampleProject
    \/ Sweep
    \/ Tick
    \/ ReadBlogPost
    \/ ReadPage
    \/ ReadProject
    \/ ReadApiPost

Spec == Init /\ [][Next]_vars

(* The metadata accessors, called one at a time on the posts of a store    *)
(* that holds two drafts created through admin_new_post.                    *)
InitMeta ==
    /\ posts = <<[slug |-> "hello-world", post_type |-> "post", post_status |-> "draft",
                  user_id |-> 1, category_id |-> NULL, published_at |-> NULL],
                 [slug |-> "flask-blog-cms", post_type |-> "post", post_status |-> "draft",
                  user_id |-> 2, category_id |-> NULL, published_at |-> NULL]>>
    /\ tags = <<>>
    /\ categories = <<>>
    /\ post_tags = {}
    /\ meta = <<>>
    /\ settings = <<>>
    /\ users = <<>>
    /\ config = [ADMIN_GITHUB_USERNAME |-> PyNone]
    /\ now = 1
    /\ sessions = [r \in Requests |-> Idle]
    /\ resp = [op |-> "init", outcome |-> "ok"]

CallSetMeta ==
    \E p \in DOMAIN posts, key \in MetaKeyNames, value \in MetaValues : SetMeta(p, key, value)

CallDeleteMeta == \E p \in DOMAIN posts, key \in MetaKeyNames : DeleteMeta(p, key)

CallGetMeta ==
    \E p \in DOMAIN posts, key \in MetaKeyNames, default \in MetaDefaults :
        GetMeta(p, key, default)

NextMeta ==
    \/ CallSetMeta
    \/ CallDeleteMeta
    \/ CallGetMeta

SpecMeta == InitMeta /\ [][NextMeta]_vars

(* Taxonomy and tag strings: one user, drafts only, the clock stands still.  *)
(* The ORM alternatives are offered only to the forms they can affect. *)
DedupChoices(S) == IF HasDup(tag_names(S)) THEN BOOLEAN ELSE {TRUE}

CascadeChoices(cat, S) == IF cat # NULL /\ tag_names(S) # <<>> THEN BOOLEAN ELSE {TRUE}

NewTaggedPost ==
    \E slug \in FormSlugs, cat \in CategoryChoices, S \in TagStrings, fault \in BOOLEAN :
        \E dedup \in DedupChoices(S), cascade_backrefs \in CascadeChoices(cat, S) :
            admin_new_post(1, slug, cat, S, FALSE, fault, dedup, cascade_backrefs)

EditTaggedPost ==
    \E p \in 1..MaxPostId, slug \in FormSlugs, cat \in CategoryChoices, S \in TagStrings,
       fault \in BOOLEAN :
        \E dedup \in DedupChoices(S) :
            admin_edit_post(1, p, slug, cat, S, FALSE, fault, dedup)

DeleteTaggedPost == \E p \in 1..MaxPostId, fault \in BOOLEAN : admin_delete_post(1, p, fault)

NewCategory ==
    \E name \in TaxNames, slug \in TaxSlugs, fault \in BOOLEAN :
        admin_categories(name, slug, fault)

EditCategory ==
    \E c \in 1..MaxCatId, name \in TaxNames, slug \in TaxSlugs, fault \in BOOLEAN :
        admin_edit_category(c, name, slug, fault)

DeleteCategory == \E c \in 1..MaxCatId, fault \in BOOLEAN : admin_delete_category(c, fault)

NewTag ==
    \E name \in TaxNames, slug \in TaxSlugs, fault \in BOOLEAN : admin_tags(name, slug, fault)

EditTag ==
    \E t \in 1..MaxTagId, name \in TaxNames, slug \in TaxSlugs, fault \in BOOLEAN :
        admin_edit_tag(t, name, slug, fault)

DeleteTag == \E t \in 1..MaxTagId, fault \in BOOLEAN : admin_delete_tag(t, fault)

(* Renaming: categories and tags are created and edited on the taxonomy   *)
(* pages, with every name, slug and commit outcome the forms allow, and     *)
(* tags are also created by the tag string of a new post.                   *)
TagPost ==
    \E S \in TagStrings :
        \E dedup \in DedupChoices(S) :
            admin_new_post(1, "hello-world", NULL, S, FALSE, FALSE, dedup, TRUE)

NextTaxEdit ==
    \/ NewCategory
    \/ EditCategory
    \/ NewTag
    \/ EditTag
    \/ TagPost

SpecTaxEdit == Init /\ [][NextTaxEdit]_vars

(* Deleting: one category and tags are created without a slug, posts are   *)
(* created with a category and a tag string and deleted again, and          *)
(* categories and tags are deleted; only the delete handlers meet a         *)
(* failing commit.                                                          *)
TaxTagStrings == { <<>>, <<"a">>, <<"a", ",", "b">> }

AttachPost ==
    \E slug \in FormSlugs, cat \in CategoryChoices, S \in TaxTagStrings :
        \E dedup \in DedupChoices(S), cascade_backrefs \in CascadeChoices(cat, S) :
            admin_new_post(1, slug, cat, S, FALSE, FALSE, dedup, cascade_backrefs)

RemovePost == \E p \in 1..MaxPostId : admin_delete_post(1, p, FALSE)

AddCategory == admin_categories(<<"a">>, <<>>, FALSE)

AddTag == \E name \in TaxNames : admin_tags(name, <<>>, FALSE)

NextTax ==
    \/ AttachPost
    \/ RemovePost
    \/ AddCategory
    \/ DeleteCategory
    \/ AddTag
    \/ DeleteTag

SpecTax == Init /\ [][NextTax]_vars

(* Tag strings: posts are created, edited and deleted with a tag string,    *)
(* and tags are also created and deleted on the taxonomy page.              *)
NextTags ==
    \/ NewTaggedPost
    \/ EditTaggedPost
    \/ DeleteTaggedPost
    \/ NewTag
    \/ DeleteTag

SpecTags == Init /\ [][NextTags]_vars

(* ------------------------------------------------------------------ claims *)
PostOps == {"admin_edit_post", "admin_publish_post", "admin_delete_post"}

ReadOps == {"blog_post", "view_page", "project_detail", "api_post"}

(* C1: in every reachable state no two Post rows, of whatever post_type,    *)
(* have the same slug.                                                      *)
C1_SlugsUnique ==
    \A p \in DOMAIN posts : \A q \in DOMAIN posts :
        p # q => posts[p].slug # posts[q].slug

(* C1 witness: a create or edit that asked for a slug another post holds    *)
(* has just been rejected, with posts of both types in the store.           *)
C1_Witness ==
    /\ resp.op \in {"admin_new_post", "admin_edit_post"}
    /\ resp.outcome \in {"integrity", "crash"}
    /\ \E p \in DOMAIN posts : posts[p].post_type = "post"
    /\ \E p \in DOMAIN posts : posts[p].post_type = "project"

(* C2 (as claimed): once a post's published_at is non-null, no step changes *)
(* it or clears it.                                                         *)
C2_PublishedAtSetOnce ==
    [][\A p \in DOMAIN posts :
          (p \in DOMAIN posts' /\ posts[p].published_at # NULL)
              => posts'[p].published_at = posts[p].published_at]_vars

(* C3 (as claimed): a publish action or an edit on a post that is published *)
(* before and after the call leaves published_at as it was.                 *)
C3_RepublishKeepsTimestamp ==
    [][\A p \in DOMAIN posts :
          (/\ resp'.op \in {"admin_publish_post", "admin_edit_post"}
           /\ resp'.post = p
           /\ resp'.outcome = "ok"
           /\ published(posts[p])
           /\ published(posts'[p]))
              => posts'[p].published_at = posts[p].published_at]_vars

(* C4 (as claimed): an edit, publish or delete of a post by a logged-in     *)
(* user who does not own it is refused and changes nothing of the post,     *)
(* its tag links or its metadata.                                           *)
C4_NonOwnerRefused ==
    [][\A p \in DOMAIN posts :
          (/\ resp'.op \in PostOps
           /\ resp'.post = p
           /\ ~is_owned_by(posts[p], User(resp'.user)))
              => /\ resp'.outcome = "refused"
                 /\ p \in DOMAIN posts'
                 /\ posts'[p] = posts[p]
                 /\ PostTagIds(post_tags', p) = PostTagIds(post_tags, p)
                 /\ meta' = meta]_vars

(* C5 (as claimed): a public read by slug (blog_post, view_page,            *)
(* project_detail, api_post) that returns a post returns a published one;   *)
(* a slug held only by an unpublished post is answered 404.                 *)
C5_ReadsOnlyPublished ==
    (resp.op \in ReadOps /\ resp.outcome = "ok")
        => posts[resp.post].post_status = "publish"

(* C6: after any sequence of set_meta and delete_meta calls the store holds *)
(* at most one PostMeta row for each (post_id, meta_key) pair.              *)
C6_OneRowPerKey ==
    \A r \in DOMAIN meta : \A q \in DOMAIN meta :
        (meta[r].post_id = meta[q].post_id /\ meta[r].meta_key = meta[q].meta_key)
            => r = q

(* C6 witness: set_meta has just run on a key that already had a row, with  *)
(* rows of other keys in the store.                                         *)
C6_Witness ==
    /\ resp.op = "set_meta"
    /\ resp.outcome = "updated"
    /\ Cardinality(DOMAIN meta) >= 3

(* C7: after set_meta(k, v) on a post, get_meta(k) on it returns str(v)     *)
(* whatever k held before, and every other key of that post and every key   *)
(* of every other post reads as before.                                     *)
C7_LastWriteWins ==
    [][resp'.op = "set_meta" =>
          /\ get_meta(meta', resp'.post, resp'.key, PyNone) = PyStr(Str(resp'.value))
          /\ \A p \in DOMAIN posts : \A k \in MetaKeyNames : \A d \in MetaDefaults :
                <<p, k>> # <<resp'.post, resp'.key>>
                    => get_meta(meta', p, k, d) = get_meta(meta, p, k, d)]_vars

(* C7 witness: set_meta(k, 1) with the integer 1 has just replaced another  *)
(* text under k, and get_meta(k) now returns the text "1".                  *)
C7_Witness ==
    /\ resp.op = "set_meta"
    /\ resp.outcome = "updated"
    /\ resp.value = PyInt(1)
    /\ resp.old = PyStr("blank")
    /\ get_meta(meta, resp.post, resp.key, PyNone) = PyStr("1")
    /\ Cardinality(DOMAIN meta) >= 2

(* After delete_meta(k): get_meta(k, d) is d, get_all_meta() has no k, and  *)
(* the other keys of the post keep their values.                            *)
AfterDeleteMeta ==
    resp'.op = "delete_meta" =>
        /\ \A d \in MetaDefaults : get_meta(meta', resp'.post, resp'.key, d) = d
        /\ resp'.key \notin DOMAIN get_all_meta(meta', resp'.post)
        /\ \A k \in MetaKeyNames \ {resp'.key} : \A d \in MetaDefaults :
              get_meta(meta', resp'.post, k, d) = get_meta(meta, resp'.post, k, d)

(* C8 (as claimed): get_meta(k, d) returns d exactly when the post has no   *)
(* PostMeta row for k; and delete_meta(k) does what AfterDeleteMeta says.   *)
C8_DefaultIffNoRow ==
    [][/\ resp'.op = "get_meta" =>
            (resp'.ret = resp'.default <=> MetaRows(meta', resp'.post, resp'.key) = {})
       /\ AfterDeleteMeta]_vars

(* C8 (amended): get_meta(k, d) returns d when the post has no row for k    *)
(* and the text stored under k when it has one (which may be equal to d);   *)
(* and delete_meta(k) does what AfterDeleteMeta says.                       *)
C8_DefaultWhenNoRow ==
    [][/\ resp'.op = "get_meta" =>
            /\ MetaRows(meta', resp'.post, resp'.key) = {} => resp'.ret = resp'.default
            /\ \A r \in MetaRows(meta', resp'.post, resp'.key) :
                  resp'.ret = PyStr(meta'[r].meta_value)
       /\ AfterDeleteMeta]_vars

(* C8 witness: delete_meta(k) has just removed the row of k while the post  *)
(* still has a row under another key.                                       *)
C8_Witness ==
    /\ resp.op = "delete_meta"
    /\ resp.outcome = "deleted"
    /\ MetaRows(meta, resp.post, resp.key) = {}
    /\ \E k \in MetaKeyNames \ {resp.key} : MetaRows(meta, resp.post, k) # {}

StoreUnchanged == UNCHANGED <<posts, tags, categories, post_tags, meta>>

(* C9: deleting a Tag or a Category that some post references is refused    *)
(* and changes nothing in the store; deleting an unreferenced one removes   *)
(* exactly that row (or, when the database itself fails at commit, reports  *)
(* the error and changes nothing).                                          *)
C9_DeleteGuard ==
    [][/\ (resp'.op = "admin_delete_tag" /\ resp'.id \in DOMAIN tags) =>
            IF \E l \in post_tags : l[2] = resp'.id
            THEN resp'.outcome = "refused" /\ StoreUnchanged
            ELSE \/ /\ resp'.outcome = "ok"
                    /\ DOMAIN tags' = DOMAIN tags \ {resp'.id}
                    /\ \A t \in DOMAIN tags' : tags'[t] = tags[t]
                    /\ UNCHANGED <<posts, categories, post_tags, meta>>
                 \/ resp'.outcome = "database" /\ StoreUnchanged
       /\ (resp'.op = "admin_delete_category" /\ resp'.id \in DOMAIN categories) =>
            IF \E p \in DOMAIN posts : posts[p].category_id = resp'.id
            THEN resp'.outcome = "refused" /\ StoreUnchanged
            ELSE \/ /\ resp'.outcome = "ok"
                    /\ DOMAIN categories' = DOMAIN categories \ {resp'.id}
                    /\ \A c \in DOMAIN categories' : categories'[c] = categories[c]
                    /\ UNCHANGED <<posts, tags, post_tags, meta>>
                 \/ resp'.outcome = "database" /\ StoreUnchanged]_vars

(* C9 witness: the delete of a tag that a post carries has just been        *)
(* refused, next to a category that a post references.                      *)
C9_Witness ==
    /\ resp.op = "admin_delete_tag"
    /\ resp.outcome = "refused"
    /\ resp.id \in DOMAIN tags
    /\ \E l \in post_tags : l[2] = resp.id
    /\ \E p \in DOMAIN posts : posts[p].category_id \in DOMAIN categories

(* The trimmed, non-empty, comma-separated names of S, read off S itself:   *)
(* the stretches without comma that start and end with a non-blank and are  *)
(* separated from the commas (or ends) around them by blanks only.          *)
NamesOf(S) ==
    LET n == Len(S)
        IsName(a, b) ==
            /\ a <= b
            /\ \A k \in a..b : S[k] # ","
            /\ S[a] # " " /\ S[b] # " "
            /\ \E i \in 1..a : /\ (i = 1 \/ S[i - 1] = ",")
                               /\ \A k \in i..(a - 1) : S[k] = " "
            /\ \E j \in b..n : /\ (j = n \/ S[j + 1] = ",")
                               /\ \A k \in (b + 1)..j : S[k] = " "
    IN  {SubSeq(S, x[1], x[2]) : x \in {y \in (1..n) \X (1..n) : IsName(y[1], y[2])}}

(* C10: after a successful post edit with tag string S the post's tags are  *)
(* exactly the names of S; every Tag row that existed is still there and    *)
(* unchanged (detached tags included), a row is created only for a name of  *)
(* S that had none, and the tag links of other posts are untouched.         *)
C10_TagsReplaced ==
    [][(resp'.op = "admin_edit_post" /\ resp'.outcome = "ok") =>
          LET p == resp'.post
              S == resp'.tags
          IN  /\ {tags'[l[2]].name : l \in {x \in post_tags' : x[1] = p}} = NamesOf(S)
              /\ \A t \in DOMAIN tags : t \in DOMAIN tags' /\ tags'[t] = tags[t]
              /\ \A t \in DOMAIN tags' \ DOMAIN tags :
                    /\ tags'[t].name \in NamesOf(S)
                    /\ \A x \in DOMAIN tags : tags[x].name # tags'[t].name
              /\ {l \in post_tags' : l[1] # p} = {l \in post_tags : l[1] # p}]_vars

(* C10 witness: a post that carried the tags a and b has just been edited   *)
(* with the tag string "a": b is detached from it and its row remains.      *)
C10_Witness ==
    /\ resp.op = "admin_edit_post"
    /\ resp.outcome = "ok"
    /\ resp.tags = <<"a">>
    /\ \E t \in resp.was :
          /\ t \in DOMAIN tags
          /\ tags[t].name = <<"b">>
          /\ <<resp.post, t>> \notin post_tags
    /\ \E t \in resp.was : <<resp.post, t>> \in post_tags

(* ------------------------------------------------------------------ slugs *)
(* str(i) for a non-negative integer, as a sequence of characters. *)
RECURSIVE DecStr(_)
DecStr(n) ==
    IF n < 10 THEN <<Digits[n + 1]>>
    ELSE DecStr(n \div 10) \o <<Digits[(n % 10) + 1]>>

(* f"{base_slug}-{i}" *)
Suffixed(base_slug, i) == base_slug \o <<"-">> \o DecStr(i)

(* The query below with the exclude_id filter left out. *)
SlugTaken_NoExclude(table, slug, exclude_id) ==
    \E r \in DOMAIN table : table[r].slug = slug

(* model.query.filter(model.slug == slug), and model.id != exclude_id when  *)
(* exclude_id is not None: whether .first() finds a row.                    *)
SlugTaken(table, slug, exclude_id) ==
    \E r \in DOMAIN table :
        /\ table[r].slug = slug
        /\ exclude_id # NULL => r # exclude_id

(* The while loop of ensure_unique_slug, entered with candidate slug and    *)
(* counter i.                                                               *)
RECURSIVE ensure_unique_slug_loop(_, _, _, _, _)
ensure_unique_slug_loop(table, base_slug, exclude_id, slug, i) ==
    IF ~SlugTaken(table, slug, exclude_id) THEN slug
    ELSE ensure_unique_slug_loop(table, base_slug, exclude_id,
                                 Suffixed(base_slug, i), i + 1)

ensure_unique_slug(table, base_slug, exclude_id) ==
    ensure_unique_slug_loop(table, base_slug, exclude_id, base_slug, 2)

(* A loop that runs its query a second time to fetch the row it found. *)
RECURSIVE ensure_unique_slug_probes_Refetch(_, _, _, _, _)
ensure_unique_slug_probes_Refetch(table, base_slug, exclude_id, slug, i) ==
    IF ~SlugTaken(table, slug, exclude_id) THEN 1
    ELSE 2 + ensure_unique_slug_probes_Refetch(table, base_slug, exclude_id,
                                               Suffixed(base_slug, i), i + 1)

(* The number of times the while loop runs q.first(), entered with          *)
(* candidate slug and counter i: one probe per candidate.                   *)
RECURSIVE ensure_unique_slug_probes(_, _, _, _, _)
ensure_unique_slug_probes(table, base_slug, exclude_id, slug, i) ==
    IF ~SlugTaken(table, slug, exclude_id) THEN 1
    ELSE 1 + ensure_unique_slug_probes(table, base_slug, exclude_id,
                                       Suffixed(base_slug, i), i + 1)

(* Slugs as text, so that a suffixed slug can meet a slug typed in a form. *)
SlugPool == { <<"a">>, <<"a", "-", "2">>, <<"a", "-", "3">>, <<"b">> }

(* A call of ensure_unique_slug(Post, base_slug, exclude_id); it only reads. *)
EnsureUniqueSlug(base_slug, exclude_id) ==
    /\ resp' = [op |-> "ensure_unique_slug", base |-> base_slug, exclude |-> exclude_id,
                ret |-> ensure_unique_slug(posts, base_slug, exclude_id),
                probes |-> ensure_unique_slug_probes(posts, base_slug, exclude_id,
                                                     base_slug, 2)]
    /\ UNCHANGED <<posts, tags, categories, post_tags, meta, now, settings, users, config,
                   sessions>>

CallEnsureUniqueSlug ==
    \E base_slug \in SlugPool, exclude_id \in {NULL} \cup (1..MaxPostId) :
        EnsureUniqueSlug(base_slug, exclude_id)

(* Posts are created through the form with a slug of the pool, and deleted. *)
NewSlugPost ==
    \E slug \in SlugPool : admin_new_post(1, slug, NULL, <<>>, FALSE, FALSE, TRUE, TRUE)

NextSlug ==
    \/ NewSlugPost
    \/ RemovePost
    \/ CallEnsureUniqueSlug

SpecSlug == Init /\ [][NextSlug]_vars

(* C11: ensure_unique_slug(model, base, exclude_id) returns base when no    *)
(* row other than exclude_id has slug base; otherwise base-k for the        *)
(* smallest k >= 2 such that no row other than exclude_id has slug base-k;  *)
(* the returned slug is never the slug of a row other than exclude_id.      *)
C11_FirstFreeSlug ==
    resp.op = "ensure_unique_slug" =>
        LET Taken(s) == \E r \in DOMAIN posts :
                            r # resp.exclude /\ posts[r].slug = s
        IN  /\ ~Taken(resp.base) => resp.ret = resp.base
            /\ Taken(resp.base) =>
                   \E k \in 2..(Cardinality(DOMAIN posts) + 2) :
                       /\ resp.ret = Suffixed(resp.base, k)
                       /\ ~Taken(Suffixed(resp.base, k))
                       /\ \A j \in 2..(k - 1) : Taken(Suffixed(resp.base, j))
            /\ ~Taken(resp.ret)

(* C11 witness: with "a" and "a-2" both stored, the call for "a" without an *)
(* excluded row has returned "a-3".                                         *)
C11_Witness ==
    /\ resp.op = "ensure_unique_slug"
    /\ resp.base = <<"a">>
    /\ resp.exclude = NULL
    /\ resp.ret = <<"a", "-", "3">>
    /\ \E r \in DOMAIN posts : posts[r].slug = <<"a", "-", "2">>

(* C12 (as claimed): creating a post whose requested slug is the slug of an *)
(* existing post succeeds and stores the new post under the first free      *)
(* suffixed slug (-2, -3, ...).                                             *)
C12_CreateDisambiguates ==
    [][\A slug \in SlugPool :
          (/\ admin_new_post(1, slug, NULL, <<>>, FALSE, FALSE, TRUE, TRUE)
           /\ SlugTaken(posts, slug, NULL))
              => /\ resp'.outcome = "ok"
                 /\ resp'.post \in DOMAIN posts'
                 /\ posts'[resp'.post].slug = ensure_unique_slug(posts, slug, NULL)]_vars

(* ---------------------------------------------------------------- slugify *)
MaxTextLen == 4

(* The characters [a-z0-9] of _slug_re. *)
SlugAlnum ==
    {"a", "b", "c", "d", "e", "f", "g", "h", "i", "j", "k", "l", "m", "n", "o", "p", "q",
     "r", "s", "t", "u", "v", "w", "x", "y", "z",
     "0", "1", "2", "3", "4", "5", "6", "7", "8", "9"}

(* str.lower(), on the characters that texts are made of here. *)
LowerChar(c) ==
    CASE c = "A" -> "a"
      [] c = "B" -> "b"
      [] OTHER -> c

Lower(s) == [i \in DOMAIN s |-> LowerChar(s[i])]

(* _slug_re.sub("-", s): every maximal run of characters outside [a-z0-9]   *)
(* becomes one hyphen.                                                      *)
RECURSIVE DropRun(_)
DropRun(s) == IF s # <<>> /\ Head(s) \notin SlugAlnum THEN DropRun(Tail(s)) ELSE s

RECURSIVE SubHyphen(_)
SubHyphen(s) ==
    IF s = <<>> THEN <<>>
    ELSE IF Head(s) \in SlugAlnum THEN <<Head(s)>> \o SubHyphen(Tail(s))
    ELSE <<"-">> \o SubHyphen(DropRun(s))

(* A strip("-") that removes leading hyphens only. *)
RECURSIVE StripHyphens_LeadingOnly(_)
StripHyphens_LeadingOnly(s) ==
    IF s # <<>> /\ Head(s) = "-" THEN StripHyphens_LeadingOnly(Tail(s)) ELSE s

(* s.strip("-") *)
RECURSIVE StripHyphens(_)
StripHyphens(s) ==
    IF s # <<>> /\ Head(s) = "-" THEN StripHyphens(Tail(s))
    ELSE IF s # <<>> /\ s[Len(s)] = "-" THEN StripHyphens(SubSeq(s, 1, Len(s) - 1))
    ELSE s

slugify(text) ==
    LET s == StripHyphens(SubHyphen(Lower(Strip(text))))
    IN  IF s = <<>> THEN <<"i", "t", "e", "m">> ELSE s

(* Texts: a lower-case letter, an upper-case letter, a digit, a space, a    *)
(* hyphen and a punctuation mark, in every order.                           *)
TextChars == {"a", "B", "1", " ", "-", "!"}

Texts == UNION {[1..n -> TextChars] : n \in 0..MaxTextLen}

(* The text handed to slugify is chosen at the start; the call reads it.    *)
InitSlugify ==
    /\ posts = <<>>
    /\ tags = <<>>
    /\ categories = <<>>
    /\ post_tags = {}
    /\ meta = <<>>
    /\ settings = <<>>
    /\ users = <<>>
    /\ config = [ADMIN_GITHUB_USERNAME |-> PyNone]
    /\ now = 1
    /\ sessions = [r \in Requests |-> Idle]
    /\ \E text \in Texts : resp = [op |-> "text", text |-> text]

CallSlugify ==
    /\ resp.op = "text"
    /\ resp' = [op |-> "slugify", text |-> resp.text, ret |-> slugify(resp.text)]
    /\ UNCHANGED <<posts, tags, categories, post_tags, meta, now, settings, users, config,
                   sessions>>

NextSlugify == CallSlugify

SpecSlugify == InitSlugify /\ [][NextSlugify]_vars

(* C13: for every input, slugify returns a non-empty string of characters   *)
(* a-z, 0-9 and '-', with no leading hyphen, no trailing hyphen and no two  *)
(* adjacent hyphens; an input without a character of [a-z0-9] after         *)
(* lower-casing yields "item".                                              *)
C13_SlugifyShape ==
    resp.op = "slugify" =>
        LET r == resp.ret
        IN  /\ r # <<>>
            /\ \A i \in DOMAIN r : r[i] \in SlugAlnum \cup {"-"}
            /\ r[1] # "-"
            /\ r[Len(r)] # "-"
            /\ \A i \in 1..(Len(r) - 1) : ~(r[i] = "-" /\ r[i + 1] = "-")
            /\ (\A i \in DOMAIN resp.text : LowerChar(resp.text[i]) \notin SlugAlnum)
                   => r = <<"i", "t", "e", "m">>

(* C13 witness: slugify has lower-cased a text and collapsed a run of two   *)
(* foreign characters into one hyphen.                                      *)
C13_Witness ==
    /\ resp.op = "slugify"
    /\ resp.text = <<"B", "!", "-", "1">>
    /\ resp.ret = <<"b", "-", "1">>

MaxSettingId == 2

(* Setting.query.filter_by(key=key) *)
SettingRows(st, key) == {r \in DOMAIN st : st[r].key = key}

(* Setting.get(key, default) *)
Setting_get(st, key, default) ==
    LET rows == SettingRows(st, key)
    IN  IF rows = {} THEN default ELSE PyStr(st[First(rows)].value)

(* Python truthiness of the description argument. *)
Truthy(value) ==
    CASE value.t = "NoneType" -> FALSE
      [] value.t = "str" -> value.s # ""
      [] value.t = "int" -> value.i # 0
      [] OTHER -> value.b

(* The rows Setting.set stages before its commit. *)
SettingStaged(st, key, value, description) ==
    LET rows == SettingRows(st, key)
    IN  IF rows # {}
        THEN LET r == First(rows)
             IN  [st EXCEPT ![r].value = Str(value),
                            ![r].description =
                                IF Truthy(description) THEN description ELSE @]
        ELSE Extend(st, NextId(st),
                    [key |-> key, value |-> Str(value), description |-> description])

(* Setting.set that adds a row without looking for an existing one. *)
Setting_set_AlwaysInsert(st, key, value, description, fault) ==
    LET staged == Extend(st, NextId(st),
                         [key |-> key, value |-> Str(value), description |-> description])
        raised == commit(key = PyNone, fault)
    IN  IF raised = "ok"
        THEN [settings |-> staged, commit |-> raised, raised |-> "none", message |-> "none"]
        ELSE [settings |-> st, commit |-> raised, raised |-> "ValueError",
              message |-> "Failed to set"]

(* Setting.set that lets the storage exception through without rollback. *)
Setting_set_NoRollback(st, key, value, description, fault) ==
    LET staged == SettingStaged(st, key, value, description)
        raised == commit(key = PyNone, fault)
    IN  IF raised = "ok"
        THEN [settings |-> staged, commit |-> raised, raised |-> "none", message |-> "none"]
        ELSE [settings |-> staged, commit |-> raised, raised |-> raised,
              message |-> "none"]

(* Setting.set(key, value, description).  The key column is NOT NULL: a     *)
(* key of None fails the commit with IntegrityError.  Both except clauses   *)
(* roll back and raise ValueError inside the outer try, whose               *)
(* 'except Exception' replaces it by ValueError("Failed to set ...").       *)
Setting_set(st, key, value, description, fault) ==
    LET staged == SettingStaged(st, key, value, description)
        raised == commit(key = PyNone, fault)
    IN  IF raised = "ok"
        THEN [settings |-> staged, commit |-> raised, raised |-> "none", message |-> "none"]
        ELSE [settings |-> st, commit |-> raised, raised |-> "ValueError",
              message |-> "Failed to set"]

SettingKeys == {PyStr("image_quality"), PyStr("image_max_width"), PyNone}

SettingValues == {PyInt(1), PyInt(2)}

SettingDescriptions == {PyNone, PyStr(""), PyStr("JPEG quality (1-100)")}

SettingDefaults == {PyNone, PyInt(1)}

SettingSet(key, value, description, fault) ==
    LET res == Setting_set(settings, key, value, description, fault)
    IN  /\ MaxOf(DOMAIN res.settings) <= MaxSettingId
        /\ settings' = res.settings
        /\ resp' = [op |-> "Setting.set", key |-> key, value |-> value,
                    description |-> description, commit |-> res.commit,
                    raised |-> res.raised, message |-> res.message]
        /\ UNCHANGED <<posts, tags, categories, post_tags, meta, users, config, now, sessions>>

SettingGet(key, default) ==
    /\ resp' = [op |-> "Setting.get", key |-> key, default |-> default,
                ret |-> Setting_get(settings, key, default)]
    /\ UNCHANGED <<posts, tags, categories, post_tags, meta, settings, users, config, now,
                   sessions>>

CallSettingSet ==
    \E key \in SettingKeys, value \in SettingValues, description \in SettingDescriptions,
       fault \in BOOLEAN :
        SettingSet(key, value, description, fault)

CallSettingGet ==
    \E key \in SettingKeys, default \in SettingDefaults : SettingGet(key, default)

NextSettings ==
    \/ CallSettingSet
    \/ CallSettingGet

SpecSettings == Init /\ [][NextSettings]_vars

(* C16: the store never holds two Setting rows with one key; a set that     *)
(* returns makes get(k, d) the text form of the value whatever d is, keeps  *)
(* the stored description when none is given and leaves every other key as *)
(* it was; a set that raises leaves every key as it was; get(k, d) on a key *)
(* without a row returns d and changes nothing.                             *)
C16_SettingUpsert ==
    /\ [](\A k \in SettingKeys : Cardinality(SettingRows(settings, k)) <= 1)
    /\ [](resp.op = "Setting.get" /\ SettingRows(settings, resp.key) = {}
              => resp.ret = resp.default)
    /\ [][resp'.op = "Setting.get" => settings' = settings]_vars
    /\ [][resp'.op = "Setting.set" =>
             LET k == resp'.key
                 Others == IF resp'.raised = "none" THEN SettingKeys \ {k} ELSE SettingKeys
             IN  /\ resp'.raised = "none" =>
                        /\ \A d \in SettingDefaults :
                               Setting_get(settings', k, d) = PyStr(Str(resp'.value))
                        /\ \A r \in SettingRows(settings, k) :
                               resp'.description = PyNone =>
                                   /\ r \in SettingRows(settings', k)
                                   /\ settings'[r].description = settings[r].description
                 /\ \A o \in Others : \A d \in SettingDefaults :
                        Setting_get(settings', o, d) = Setting_get(settings, o, d)]_vars

(* C16 witness: a set without a description has just replaced the value of  *)
(* a key whose row keeps the description of an earlier set.                 *)
C16_Witness ==
    /\ resp.op = "Setting.set"
    /\ resp.raised = "none"
    /\ resp.description = PyNone
    /\ resp.value = PyInt(2)
    /\ \E r \in SettingRows(settings, resp.key) :
           /\ settings[r].description = PyStr("JPEG quality (1-100)")
           /\ settings[r].value = "2"
    /\ Cardinality(DOMAIN settings) = 2

(* C17: when the commit inside Setting.set fails, the stored settings are   *)
(* as before the call and the caller gets a ValueError with the message of  *)
(* Setting.set, not the storage exception.                                  *)
C17_SetFailureRollsBack ==
    [][(resp'.op = "Setting.set" /\ resp'.commit # "ok")
           => /\ settings' = settings
              /\ resp'.raised = "ValueError"
              /\ resp'.message = "Failed to set"]_vars

(* C17 witness: a set on a stored key has met a database error, and the row *)
(* still holds another value than the one handed in.                        *)
C17_Witness ==
    /\ resp.op = "Setting.set"
    /\ resp.commit = "SQLAlchemyError"
    /\ resp.raised = "ValueError"
    /\ \E r \in SettingRows(settings, resp.key) : settings[r].value # Str(resp.value)

(* ------------------------------------------------------------------ login *)
MaxUserId == 2

(* str(profile["id"]) and profile["login"] as GitHub reports them. *)
GithubIds == {"1001", "1002"}

Logins == {"alice", "bob"}

(* os.environ.get("ADMIN_GITHUB_USERNAME"): unset, empty or a login name. *)
AdminNames == {PyNone, PyStr(""), PyStr("alice")}

(* User.query.filter_by(github_id=github_id) *)
UserRows(us, github_id) == {r \in DOMAIN us : us[r].github_id = github_id}

(* config.get("ADMIN_GITHUB_USERNAME") and username == config[...] *)
IsAdminLogin(cfg, username) ==
    /\ Truthy(cfg.ADMIN_GITHUB_USERNAME)
    /\ username = cfg.ADMIN_GITHUB_USERNAME.s

(* A callback that decides is_admin again at every login. *)
github_callback_RegrantOnLogin(github_id, username, fetched, fault) ==
    IF ~fetched
    THEN /\ resp' = [op |-> "github_callback", github_id |-> github_id,
                     username |-> username, user |-> NULL, created |-> FALSE,
                     outcome |-> "no_profile"]
         /\ UNCHANGED <<posts, tags, categories, post_tags, meta, settings, users, config, now,
                        sessions>>
    ELSE
    LET rows == UserRows(users, github_id)
        res == safe_db_commit(FALSE, fault)
        id == IF rows = {} THEN NextId(users) ELSE First(rows)
        staged == Extend(users, id, [github_id |-> github_id, username |-> username,
                                     is_admin |-> IsAdminLogin(config, username)])
    IN  /\ id <= MaxUserId
        /\ users' = IF res.success THEN staged ELSE users
        /\ resp' = [op |-> "github_callback", github_id |-> github_id,
                    username |-> username, user |-> IF res.success THEN id ELSE NULL,
                    created |-> rows = {} /\ res.success,
                    outcome |-> IF res.success THEN "ok" ELSE res.error]
        /\ UNCHANGED <<posts, tags, categories, post_tags, meta, settings, config, now, sessions>>

(* github_callback: fetched is whether the profile request succeeded.  A    *)
(* new user is added through safe_db_add, a known user is updated through   *)
(* safe_db_commit; on failure nobody is logged in.                          *)
github_callback(github_id, username, fetched, fault) ==
    IF ~fetched
    THEN /\ resp' = [op |-> "github_callback", github_id |-> github_id,
                     username |-> username, user |-> NULL, created |-> FALSE,
                     outcome |-> "no_profile"]
         /\ UNCHANGED <<posts, tags, categories, post_tags, meta, settings, users, config, now,
                        sessions>>
    ELSE
    LET rows == UserRows(users, github_id)
        res == safe_db_commit(FALSE, fault)
        id == IF rows = {} THEN NextId(users) ELSE First(rows)
        staged ==
            IF rows = {}
            THEN Extend(users, id, [github_id |-> github_id, username |-> username,
                                    is_admin |-> IsAdminLogin(config, username)])
            ELSE [users EXCEPT ![id].username = username]
    IN  /\ id <= MaxUserId
        /\ users' = IF res.success THEN staged ELSE users
        /\ resp' = [op |-> "github_callback", github_id |-> github_id,
                    username |-> username, user |-> IF res.success THEN id ELSE NULL,
                    created |-> rows = {} /\ res.success,
                    outcome |-> IF res.success THEN "ok" ELSE res.error]
        /\ UNCHANGED <<posts, tags, categories, post_tags, meta, settings, config, now, sessions>>

(* The application is started again with another environment. *)
Restart(admin) ==
    /\ config' = [config EXCEPT !.ADMIN_GITHUB_USERNAME = admin]
    /\ resp' = [op |-> "restart", outcome |-> "ok"]
    /\ UNCHANGED <<posts, tags, categories, post_tags, meta, settings, users, now, sessions>>

GithubCallback ==
    \E github_id \in GithubIds, username \in Logins, fetched \in BOOLEAN, fault \in BOOLEAN :
        github_callback(github_id, username, fetched, fault)

Reconfigure == \E admin \in AdminNames : Restart(admin)

NextAuth ==
    \/ GithubCallback
    \/ Reconfigure

SpecAuth == Init /\ [][NextAuth]_vars

(* C18: a user's is_admin is decided when the row is created at the first   *)
(* login (true iff an admin username is configured and the login name       *)
(* equals it), and no later step, a later login under whatever name and     *)
(* configuration included, changes it.                                      *)
C18_AdminOnlyAtCreation ==
    /\ [][(resp'.op = "github_callback" /\ resp'.created) =>
             users'[resp'.user].is_admin =
                 (/\ config.ADMIN_GITHUB_USERNAME \notin {PyNone, PyStr("")}
                  /\ resp'.username = config.ADMIN_GITHUB_USERNAME.s)]_vars
    /\ [][\A u \in DOMAIN users :
             /\ u \in DOMAIN users'
             /\ users'[u].is_admin = users[u].is_admin]_vars

(* C18 witness: a known user has just logged in under the configured admin  *)
(* name and is still no admin, and another known user who no longer bears   *)
(* that name still is one.                                                  *)
C18_Witness ==
    /\ resp.op = "github_callback"
    /\ resp.outcome = "ok"
    /\ ~resp.created
    /\ config.ADMIN_GITHUB_USERNAME = PyStr("alice")
    /\ users[resp.user].username = "alice"
    /\ ~users[resp.user].is_admin
    /\ \E u \in DOMAIN users : users[u].is_admin /\ users[u].username = "bob"

(* ------------------------------------------------------ deleting a post *)
(* Posts are created with a category and a tag string, given a custom       *)
(* field, and deleted; the delete may meet a failing commit.                *)
AttachMeta == \E p \in DOMAIN posts : SetMeta(p, "layout", PyStr("blank"))

NextDelete ==
    \/ AddCategory
    \/ AttachPost
    \/ AttachMeta
    \/ DeleteTaggedPost

SpecDelete == Init /\ [][NextDelete]_vars

(* C19: a delete of a post that commits removes the post, every PostMeta    *)
(* row of it and every post_tags link of it, keeps the rows and links of    *)
(* the other posts, and leaves the Tag and Category tables as they were.    *)
C19_DeleteCascades ==
    [][(resp'.op = "admin_delete_post" /\ resp'.outcome = "ok") =>
          LET p == resp'.post
          IN  /\ p \notin DOMAIN posts'
              /\ \A m \in DOMAIN meta' : meta'[m].post_id # p
              /\ \A l \in post_tags' : l[1] # p
              /\ \A m \in DOMAIN meta :
                     meta[m].post_id # p => m \in DOMAIN meta' /\ meta'[m] = meta[m]
              /\ \A l \in post_tags : l[1] # p => l \in post_tags'
              /\ tags' = tags
              /\ categories' = categories]_vars

(* C19 witness: a delete has committed; the first PostMeta row is gone      *)
(* while a later one of another post is there, a tag is left without any    *)
(* post, and the category is still stored.                                  *)
C19_Witness ==
    /\ resp.op = "admin_delete_post"
    /\ resp.outcome = "ok"
    /\ 1 \notin DOMAIN meta
    /\ 2 \in DOMAIN meta
    /\ \E t \in DOMAIN tags : TagPosts(post_tags, t) = {}
    /\ categories # <<>>

(* C20: Category names are pairwise distinct and Tag names are pairwise     *)
(* distinct in every reachable state; creating or renaming a Category or    *)
(* Tag with a name that (after trimming) equals the name of another row of  *)
(* the same kind is answered with an error and changes nothing.             *)
C20_NameCollisionRejected ==
    /\ [](/\ \A a, b \in DOMAIN categories :
               categories[a].name = categories[b].name => a = b
          /\ \A a, b \in DOMAIN tags : tags[a].name = tags[b].name => a = b)
    /\ [][/\ resp'.op = "admin_categories" =>
                \A name \in TaxNames, slug \in TaxSlugs, fault \in BOOLEAN :
                    (/\ admin_categories(name, slug, fault)
                     /\ \E r \in DOMAIN categories : categories[r].name = Strip(name))
                        => resp'.outcome = "integrity" /\ StoreUnchanged
          /\ resp'.op = "admin_tags" =>
                \A name \in TaxNames, slug \in TaxSlugs, fault \in BOOLEAN :
                    (/\ admin_tags(name, slug, fault)
                     /\ \E r \in DOMAIN tags : tags[r].name = Strip(name))
                        => resp'.outcome \in {"exists", "integrity"} /\ StoreUnchanged
          /\ (resp'.op = "admin_edit_category" /\ resp'.id \in DOMAIN categories) =>
                \A name \in TaxNames, slug \in TaxSlugs, fault \in BOOLEAN :
                    (/\ admin_edit_category(resp'.id, name, slug, fault)
                     /\ \E r \in DOMAIN categories \ {resp'.id} :
                            categories[r].name = Strip(name))
                        => resp'.outcome = "integrity" /\ StoreUnchanged
          /\ (resp'.op = "admin_edit_tag" /\ resp'.id \in DOMAIN tags) =>
                \A name \in TaxNames, slug \in TaxSlugs, fault \in BOOLEAN :
                    (/\ admin_edit_tag(resp'.id, name, slug, fault)
                     /\ \E r \in DOMAIN tags \ {resp'.id} : tags[r].name = Strip(name))
                        => resp'.outcome = "integrity" /\ StoreUnchanged]_vars

(* C20 witness: an edit of a category has just been rejected by a           *)
(* constraint while no stored category has a slug that could collide, with  *)
(* two categories and two tags in the store.                                *)
C20_Witness ==
    /\ resp.op = "admin_edit_category"
    /\ resp.outcome = "integrity"
    /\ Cardinality(DOMAIN categories) = 2
    /\ \A c \in DOMAIN categories : categories[c].slug = <<>>
    /\ Cardinality(DOMAIN tags) = 2

(* C21: a post created through the form gets the creating user as user_id,  *)
(* and no step changes the user_id of a stored post, whoever performs it.   *)
C21_OwnerNeverReassigned ==
    /\ [][(resp'.op = "admin_new_post" /\ resp'.outcome = "ok")
              => posts'[resp'.post].user_id = resp'.user]_vars
    /\ [][\A p \in DOMAIN posts \cap DOMAIN posts' :
              posts'[p].user_id = posts[p].user_id]_vars

(* C21 witness: a user has just edited, with success, a post that another   *)
(* user created, and the post still belongs to its creator.                 *)
C21_Witness ==
    /\ resp.op = "admin_edit_post"
    /\ resp.outcome = "ok"
    /\ resp.post \in DOMAIN posts
    /\ posts[resp.post].user_id \in UserIds \ {resp.user}

(* ---------------------------------------------------------- is_owned_by *)
(* The principals a caller can hand to is_owned_by. *)
Principals == {NoUser, AnonymousUser} \cup {User(u) : u \in UserIds}

(* A caller asks post.is_owned_by(user); it only reads. *)
IsOwnedBy(p, user) ==
    /\ p \in DOMAIN posts
    /\ resp' = [op |-> "is_owned_by", post |-> p, principal |-> user,
                ret |-> is_owned_by(posts[p], user)]
    /\ UNCHANGED <<posts, tags, categories, post_tags, meta, settings, users, config, now,
                   sessions>>

CallIsOwnedBy == \E p \in 1..MaxPostId, user \in Principals : IsOwnedBy(p, user)

NextOwner ==
    \/ NewPost
    \/ SeedDb
    \/ DeletePost
    \/ CallIsOwnedBy

SpecOwner == Init /\ [][NextOwner]_vars

(* C22: is_owned_by(user) is true exactly when the user is present,         *)
(* authenticated and has the post's user_id as id; so it is false for an    *)
(* absent user, an anonymous user, a user with another id, and for every    *)
(* user when the post has no owner.                                         *)
C22_OwnedIffSameUser ==
    resp.op = "is_owned_by" =>
        LET user == resp.principal
            post == posts[resp.post]
        IN  /\ resp.ret = (/\ user.present
                           /\ user.is_authenticated
                           /\ user.id = post.user_id)
            /\ post.user_id = NULL => ~resp.ret
            /\ user \in {NoUser, AnonymousUser} => ~resp.ret

(* C22 witness: an anonymous user has asked about a post without an owner   *)
(* while a post with an owner is stored too.                                *)
C22_Witness ==
    /\ resp.op = "is_owned_by"
    /\ resp.principal = AnonymousUser
    /\ posts[resp.post].user_id = NULL
    /\ ~resp.ret
    /\ \E p \in DOMAIN posts : posts[p].user_id # NULL

(* --------------------------------------------------------- failed commits *)
(* Posts are created and edited with a slug, a category and a tag string,   *)
(* and every commit can meet a database fault.                              *)
RollbackTagStrings == { <<>>, <<"a">>, <<"b">>, <<"a", ",", "a">> }

CreatePost ==
    \E slug \in FormSlugs, cat \in CategoryChoices, S \in RollbackTagStrings,
       fault \in BOOLEAN :
        \E dedup \in DedupChoices(S), cascade_backrefs \in CascadeChoices(cat, S) :
            admin_new_post(1, slug, cat, S, FALSE, fault, dedup, cascade_backrefs)

RevisePost ==
    \E p \in 1..MaxPostId, slug \in FormSlugs, cat \in CategoryChoices,
       S \in RollbackTagStrings, fault \in BOOLEAN :
        \E dedup \in DedupChoices(S) :
            admin_edit_post(1, p, slug, cat, S, FALSE, fault, dedup)

NextRollback ==
    \/ AddCategory
    \/ CreatePost
    \/ RevisePost

SpecRollback == Init /\ [][NextRollback]_vars

(* C23: a post create or post edit whose commit fails leaves the store as   *)
(* it was: no Post row added or changed, no Tag row of the request kept,    *)
(* tag links and category of the post unchanged.                            *)
C23_FailedCommitRollsBack ==
    [][(/\ resp'.op \in {"admin_new_post", "admin_edit_post"}
        /\ resp'.outcome \in {"integrity", "database"})
           => StoreUnchanged]_vars

(* C23 witness: a create that named a tag without row has just failed at    *)
(* commit on the slug of a stored post, which has a category and a tag.     *)
C23_Witness ==
    /\ resp.op = "admin_new_post"
    /\ resp.outcome = "integrity"
    /\ NewTagNames(tags, tag_names(resp.tags)) # <<>>
    /\ ~HasDup(tag_names(resp.tags))
    /\ \E p \in DOMAIN posts :
           posts[p].category_id # NULL /\ PostTagIds(post_tags, p) # {}

(* The tag string S lists twice a name that has no row in tg. *)
ListsNewNameTwice(tg, S) ==
    LET names == tag_names(S)
    IN  \E i, j \in DOMAIN names :
            i < j /\ names[i] = names[j] /\ TagIdByName(tg, names[i]) = NULL

(* Another post than p holds the slug. *)
SlugHeld(slug, p) == \E q \in DOMAIN posts \ {p} : posts[q].slug = slug

C24_NoRawException ==
    resp.op \in {"admin_new_post", "admin_edit_post", "admin_publish_post",
                 "admin_delete_post", "publish_scheduled"}
        => resp.outcome # "crash"

(* ------------------------------------------------- requests in two steps *)
(* admin_new_post up to its try block, in request r: the form is read, the  *)
(* Post is built, the Tag rows of the names are looked up and the missing   *)
(* ones are staged.  The lookup sees the store as committed so far.  With   *)
(* the post already in the session (flushed) the lookup's autoflush INSERTs *)
(* it, and a slug that a stored post holds raises out of the handler.       *)
admin_new_post_stage(r, u, slug, cat, S, pub, cascade_backrefs) ==
    LET names == tag_names(S)
        flushed == cat # NULL /\ names # <<>> /\ cascade_backrefs
        held == \E q \in DOMAIN posts : posts[q].slug = slug
        raised == flushed /\ held
    IN  /\ sessions[r] = Idle
        /\ sessions' =
               IF raised THEN sessions
               ELSE [sessions EXCEPT ![r] =
                        [pc |-> "staged", user |-> u, slug |-> slug, cat |-> cat,
                         tags |-> S, pub |-> pub, at |-> now,
                         created |-> NewTagNames(tags, names)]]
        /\ resp' = [op |-> "admin_new_post", request |-> r, user |-> u, tags |-> S,
                    slug |-> slug, post |-> NULL,
                    outcome |-> IF raised THEN "crash" ELSE "staged"]
        /\ UNCHANGED <<posts, tags, categories, post_tags, meta, settings, users, config, now>>

(* The try block of admin_new_post in request r: db.session.add(post) and   *)
(* safe_db_commit().  The flush INSERTs the post and the staged Tag rows    *)
(* into the store as it is now, which may hold rows that other requests     *)
(* committed since the lookup.                                              *)
admin_new_post_commit(r, fault, dedup) ==
    LET s == sessions[r]
        names == tag_names(s.tags)
        id == NextId(posts)
        post == [set_published(
                     [slug |-> s.slug, post_type |-> "post", post_status |-> "draft",
                      user_id |-> s.user, category_id |-> s.cat, published_at |-> NULL],
                     s.pub)
                 EXCEPT !.published_at = IF s.pub THEN s.at ELSE NULL]
        staged == Extend(posts, id, post)
        inserted == InsertTags(tags, s.created)
        items == [i \in DOMAIN names |-> TagIdByName(inserted, names[i])]
        integrity ==
            \/ ~UniqueSlugs(staged)
            \/ ~UniqueNames(inserted)
            \/ (~dedup /\ HasDup(AddedLinks({}, items)))
        res == safe_db_commit(integrity, fault)
    IN  /\ s.pc = "staged"
        /\ id <= MaxPostId
        /\ ~UniqueNames(inserted) \/ MaxOf(DOMAIN tags) + Len(s.created) <= MaxTagId
        /\ IF res.success
           THEN /\ posts' = staged
                /\ tags' = inserted
                /\ post_tags' = post_tags \cup {<<id, items[i]>> : i \in DOMAIN items}
           ELSE UNCHANGED <<posts, tags, post_tags>>
        /\ sessions' = [sessions EXCEPT ![r] = Idle]
        /\ resp' = [op |-> "admin_new_post", request |-> r, user |-> s.user,
                    tags |-> s.tags, slug |-> s.slug,
                    post |-> IF res.success THEN id ELSE NULL,
                    outcome |-> IF res.success THEN "ok" ELSE res.error]
        /\ UNCHANGED <<categories, meta, settings, users, config, now>>

RaceTagStrings == { <<>>, <<"a">> }

StageNewPost ==
    \E r \in Requests, slug \in FormSlugs, cat \in CategoryChoices, S \in RaceTagStrings :
        \E cascade_backrefs \in CascadeChoices(cat, S) :
            admin_new_post_stage(r, r, slug, cat, S, FALSE, cascade_backrefs)

CommitNewPost ==
    \E r \in Requests, fault \in BOOLEAN : admin_new_post_commit(r, fault, TRUE)

(* Two requests create posts at the same time: each stages its post and     *)
(* commits later, in any order.                                             *)
NextRace ==
    \/ AddCategory
    \/ StageNewPost
    \/ CommitNewPost

SpecRace == Init /\ [][NextRace]_vars

set_meta_lookup(r, pid, key, value) ==
    /\ sessions[r] = Idle
    /\ pid \in DOMAIN posts
    /\ sessions' = [sessions EXCEPT ![r] =
                       [pc |-> "looked", post |-> pid, key |-> key, value |-> value,
                        row |-> First(MetaRows(meta, pid, key))]]
    /\ resp' = [op |-> "set_meta_lookup", request |-> r, post |-> pid, key |-> key,
                outcome |-> "ok"]
    /\ UNCHANGED <<posts, tags, categories, post_tags, meta, settings, users, config, now>>

(* The rest of Post.set_meta in request r and the caller's commit: the row  *)
(* found by the lookup is updated, or a new row is added.  post_meta has an *)
(* index on (post_id, meta_key) and no unique constraint: the INSERT is     *)
(* accepted whatever rows other requests have committed since the lookup.   *)
set_meta_write(r) ==
    LET s == sessions[r]
    IN  /\ s.pc = "looked"
        /\ s.row # NULL \/ NextId(meta) <= MaxMetaId
        /\ meta' =
               IF s.row # NULL
               THEN [meta EXCEPT ![s.row].meta_value = Str(s.value)]
               ELSE Extend(meta, NextId(meta),
                           [post_id |-> s.post, meta_key |-> s.key,
                            meta_value |-> Str(s.value)])
        /\ sessions' = [sessions EXCEPT ![r] = Idle]
        /\ resp' = [op |-> "set_meta", request |-> r, post |-> s.post, key |-> s.key,
                    outcome |-> IF s.row # NULL THEN "updated" ELSE "inserted"]
        /\ UNCHANGED <<posts, tags, categories, post_tags, settings, users, config, now>>

LookupMeta ==
    \E r \in Requests, key \in MetaKeyNames : set_meta_lookup(r, 1, key, PyStr("blank"))

WriteMeta == \E r \in Requests : set_meta_write(r)

(* Two requests call set_meta at the same time: each looks the row up and   *)
(* writes later, in any order.                                              *)
NextMetaRace ==
    \/ LookupMeta
    \/ WriteMeta

SpecMetaRace == InitMeta /\ [][NextMetaRace]_vars

(* C28 (as claimed): also when two set_meta calls for one post and key      *)
(* interleave between lookup and insert, no state holds two PostMeta rows   *)
(* for the pair.                                                            *)
C28_OneRowPerKeyInterleaved ==
    \A p \in DOMAIN posts, key \in MetaKeyNames :
        Cardinality(MetaRows(meta, p, key)) <= 1

(* C26: for every store and every base slug, ensure_unique_slug returns     *)
(* after at most (number of rows + 1) probes, with a candidate that no row  *)
(* (other than the excluded one) holds.                                     *)
C26_ProbesBounded ==
    resp.op = "ensure_unique_slug" =>
        /\ resp.probes <= Cardinality(DOMAIN posts) + 1
        /\ ~SlugTaken(posts, resp.ret, resp.exclude)
        /\ resp.ret = IF resp.probes = 1 THEN resp.base
                      ELSE Suffixed(resp.base, resp.probes)

(* C26 witness: with two rows stored the call has needed three probes, one  *)
(* more than there are rows.                                                *)
C26_Witness ==
    /\ resp.op = "ensure_unique_slug"
    /\ Cardinality(DOMAIN posts) = 2
    /\ resp.probes = 3

(* C27: an edit that takes a published post of type 'post' back to draft    *)
(* leaves its published_at set, to a time that is not in the future, so the *)
(* sweep's query selects it; and every sweep that commits sets every such   *)
(* post to 'publish' again.                                                 *)
C27_UnpublishUndoneBySweep ==
    /\ [][(/\ resp'.op = "admin_edit_post"
           /\ resp'.outcome = "ok"
           /\ posts[resp'.post].post_type = "post"
           /\ published(posts[resp'.post])
           /\ ~published(posts'[resp'.post]))
              => /\ posts'[resp'.post].post_status = "draft"
                 /\ posts'[resp'.post].published_at # NULL
                 /\ posts'[resp'.post].published_at = posts[resp'.post].published_at
                 /\ posts'[resp'.post].published_at <= now'
                 /\ resp'.post \in Due(posts', now')]_vars
    /\ [][(resp'.op = "publish_scheduled" /\ resp'.outcome = "ok")
              => \A p \in DOMAIN posts :
                     (/\ posts[p].post_type = "post"
                      /\ ~published(posts[p])
                      /\ posts[p].published_at # NULL)
                         => /\ posts'[p].post_status = "publish"
                            /\ posts'[p].published_at = posts[p].published_at]_vars

(* C27 witness: a sweep has just published a post of a user again that was  *)
(* a draft with a publication time in the past, as an unpublishing edit     *)
(* leaves it.                                                               *)
C27_Witness ==
    /\ resp.op = "publish_scheduled"
    /\ resp.outcome = "ok"
    /\ resp.count >= 1
    /\ \E p \in DOMAIN posts :
           /\ posts[p].post_type = "post"
           /\ posts[p].user_id # NULL
           /\ published(posts[p])
           /\ posts[p].published_at < now

(* C30: in every state that create, edit, publish, the sweep, seed-db and   *)
(* the sample-project script can reach, every post's post_status is 'draft' *)
(* or 'publish' (never 'private'), and setting published to false on any   *)
(* stored post yields 'draft'.                                              *)
C30_StatusDraftOrPublish ==
    \A p \in DOMAIN posts :
        /\ posts[p].post_status \in {"draft", "publish"}
        /\ set_published(posts[p], FALSE).post_status = "draft"
        /\ set_published(posts[p], TRUE).post_status = "publish"

(* C30 witness: an edit has just set published to false on a post that had  *)
(* been published, next to a post that is published.                        *)
C30_Witness ==
    /\ resp.op = "admin_edit_post"
    /\ resp.outcome = "ok"
    /\ resp.post \in DOMAIN posts
    /\ posts[resp.post].post_status = "draft"
    /\ posts[resp.post].published_at # NULL
    /\ \E q \in DOMAIN posts : posts[q].post_status = "publish"

====
